---- MODULE Spec2Model ----
(***************************************************************************)
(* A model of the `deep` computation-graph builder: the Graph IR of        *)
(* src/deep/src/lib.rs (Internal, Input, Op, Graph) and the expression     *)
(* builder of src/deep/src/tensor.rs (Tensor, merge2_1, Add, Sub).         *)
(*                                                                         *)
(* A Tensor holds an Rc<RefCell<Graph>>: the model keeps every allocated   *)
(* RefCell<Graph> in `heap` and a Tensor's `graph` field is an index into  *)
(* it, so that two Tensors holding the same Rc hold the same index.        *)
(* usize arithmetic is modelled on the naturals: the node indices of the   *)
(* model stay far below 2^64.                                              *)
(***************************************************************************)
EXTENDS Integers, Sequences, FiniteSets, Bags, TLC

VARIABLES
    heap,      \* the allocated RefCell<Graph> instances, by allocation order
    tensors,   \* the bag of live Tensor values
    panicked,  \* TRUE once a call has panicked (the thread unwinds)
    last,      \* the last builder call: name, arguments, the heap before, result
    ancestry,  \* for each live Tensor, the constructor calls it descends from
    receiver,  \* a Graph value a caller owns and drives through Graph's own API
    glast,     \* the last call on receiver: name, arguments, receiver before, result
    state,     \* the B::State value the caller of the drivers owns
    step       \* the running or last driver call: arguments, locals, backend calls

vars == <<heap, tensors, panicked, last, ancestry, receiver, glast, state, step>>
builder == <<heap, tensors, panicked, last, ancestry>>
direct == <<receiver, glast>>
training == <<state, step>>

(***************************************************************************)
(* Bounds of the model and the domains the inputs are drawn from.          *)
(***************************************************************************)
MaxLen == 4
MaxGraphs == 2
MaxTensors == 3
MaxOps == 3
MaxState == 2

Keys == {"x"}
Shapes == {<<1>>}
Values == {2}

(***************************************************************************)
(* lib.rs: Internal, Input, Op, Graph.                                     *)
(***************************************************************************)
Internal(node, output) == [node |-> node, output |-> output]

Feed(key) == [tag |-> "Feed", key |-> key]
InputInternal(n) == [tag |-> "Internal", n |-> n]

\* Op::Add with its two operands stored in the other order.
Add_swapped(a, b) == [ty |-> "Add", a |-> b, b |-> a]

Add(a, b) == [ty |-> "Add", a |-> a, b |-> b]
Sub(a, b) == [ty |-> "Sub", a |-> a, b |-> b]
Square(a) == [ty |-> "Square", a |-> a]
TrainConst(shape, value) == [ty |-> "TrainConst", shape |-> shape, value |-> value]

Graph(ops) == [ops |-> ops]

\* Graph::new / Default: no operations.
Graph_new == Graph(<<>>)

\* Internal::shift_inputs assigning the shift (self.node = shift).
Internal_shift_inputs_assign(self, shift) == [self EXCEPT !.node = shift]

\* Internal::shift_inputs: self.node += shift.
Internal_shift_inputs(self, shift) == [self EXCEPT !.node = @ + shift]

\* Input::shift_inputs: only the Internal variant is shifted.
Input_shift_inputs(self, shift) ==
    IF self.tag = "Internal"
    THEN InputInternal(Internal_shift_inputs(self.n, shift))
    ELSE self

\* Op::shift_inputs shifting only the first operand of Add and Sub.
Op_shift_inputs_first(self, shift) ==
    CASE self.ty = "Add" -> Add(Input_shift_inputs(self.a, shift), self.b)
      [] self.ty = "Sub" -> Sub(Input_shift_inputs(self.a, shift), self.b)
      [] self.ty = "Square" -> Square(Input_shift_inputs(self.a, shift))
      [] self.ty = "TrainConst" -> self

\* Op::shift_inputs: every Input of the operation is shifted; TrainConst has none.
Op_shift_inputs(self, shift) ==
    CASE self.ty = "Add" ->
            Add(Input_shift_inputs(self.a, shift), Input_shift_inputs(self.b, shift))
      [] self.ty = "Sub" ->
            Sub(Input_shift_inputs(self.a, shift), Input_shift_inputs(self.b, shift))
      [] self.ty = "Square" ->
            Square(Input_shift_inputs(self.a, shift))
      [] self.ty = "TrainConst" -> self

\* Graph::merge with the shift pass run over the whole of self.ops.
Graph_merge_shift_all(self, other) ==
    LET current == Len(self.ops)
        extended == self.ops \o other.ops
    IN  Graph([i \in 1..Len(extended) |-> Op_shift_inputs(extended[i], current)])

\* Graph::merge: extend self.ops by other.ops, then shift self.ops[current..].
Graph_merge(self, other) ==
    LET current == Len(self.ops)
        extended == self.ops \o other.ops
    IN  Graph([i \in 1..Len(extended) |->
                 IF i > current
                 THEN Op_shift_inputs(extended[i], current)
                 ELSE extended[i]])

\* Graph::merge_input: the receiver after the call, and the returned Input.
\* Graph::merge_input reading self.ops.len() after the merge instead of before.
Graph_merge_input_after(self, other, input) ==
    LET merged == Graph_merge(self, other)
    IN  [self |-> merged, ret |-> Input_shift_inputs(input, Len(merged.ops))]

Graph_merge_input(self, other, input) ==
    LET current == Len(self.ops)
    IN  [self |-> Graph_merge(self, other),
         ret  |-> Input_shift_inputs(input, current)]

\* Graph::append returning self.ops.len() instead of self.ops.len() - 1.
Graph_append_len(self, op) ==
    LET pushed == Append(self.ops, op)
    IN  [self |-> Graph(pushed), ret |-> Len(pushed)]

\* Graph::append inserting the operation at the front instead of pushing it.
Graph_append_front(self, op) ==
    LET pushed == <<op>> \o self.ops
    IN  [self |-> Graph(pushed), ret |-> Len(pushed) - 1]

\* Graph::append: the receiver after the call, and the returned node index.
Graph_append(self, op) ==
    LET pushed == Append(self.ops, op)
    IN  [self |-> Graph(pushed), ret |-> Len(pushed) - 1]

\* The operations and graphs handed to Graph's API, a sample with every kind
\* of operation, both Input variants in either operand position, references
\* to nodes 0 and 1 and output slots 0 and 1: Square of every input, Add of a
\* Feed and an Internal in both orders, Sub of two Internals in both orders.
\* The API validates nothing, so the graphs need not be well formed.
GraphFeeds == {Feed("x")}
GraphInternals == {InputInternal(Internal(0, 0)), InputInternal(Internal(1, 1))}
GraphInputs == GraphFeeds \cup GraphInternals
GraphOps ==
    {TrainConst(shape, value) : shape \in Shapes, value \in Values}
        \cup {Square(i) : i \in GraphInputs}
        \cup {Add(f, i) : f \in GraphFeeds, i \in GraphInternals}
        \cup {Add(i, f) : f \in GraphFeeds, i \in GraphInternals}
        \cup {Sub(p[1], p[2]) :
                 p \in {q \in GraphInternals \X GraphInternals : q[1] # q[2]}}
\* The graphs of at most n operations.
GraphsUpTo(n) == UNION {{Graph(ops) : ops \in [1..k -> GraphOps]} : k \in 0..n}

(***************************************************************************)
(* tensor.rs: Tensor and its constructors and combinators.                 *)
(***************************************************************************)
Tensor(graph, input) == [graph |-> graph, input |-> input]
NoTensor == [tag |-> "None"]

\* The live Tensor values: creating one adds it, moving one into a call removes it.
Live == BagToSet(tensors)
One(t) == SetToBag({t})

\* Rc: a RefCell<Graph> lives as long as a Tensor holds it.  When the last
\* holder is dropped the Graph is dropped with it and its operations are gone.
Dropped == [ops |-> <<>>, dropped |-> TRUE]
Release(h, held) ==
    [i \in 1..Len(h) |->
        IF \E t \in BagToSet(held) : t.graph = i THEN h[i] ELSE Dropped]

\* RefCell's borrow flag: 0 unused, -1 mutably borrowed, n > 0 shared borrows.
\* All borrows of the builder are temporaries of one statement, so every
\* statement starts with every flag unused.
Unused == [g \in 1..Len(heap) |-> 0]
BorrowMut(flags, g) == [flags EXCEPT ![g] = -1]
CanBorrowMut(flags, g) == flags[g] = 0
CanBorrow(flags, g) == flags[g] >= 0

NoArg == [tag |-> "None"]

\* Result<T, E>.
Ok(value) == [tag |-> "Ok", value |-> value]
Err(error) == [tag |-> "Err", error |-> error]
Errors == {"E1", "E2"}

\* The caller of the drivers has no B::State before gen_state has returned one.
NoState == [tag |-> "None"]
\* The record of a driver call: its arguments, the heap and the state when it
\* was entered, its locals, the backend calls it has made so far (log), where
\* it stands (pc) and what it returned (ret, NoArg while it runs).
Enter(name, self, inputs, learning_rate) ==
    [call |-> name, self |-> self, inputs |-> inputs,
     learning_rate |-> learning_rate, pre_heap |-> heap, pre_state |-> state,
     pc |-> "idle", output |-> NoArg, internal |-> NoArg, loss |-> 0,
     delta |-> NoArg, log |-> <<>>, ret |-> NoArg]
NoStep ==
    [call |-> "none", self |-> NoTensor, inputs |-> NoArg, learning_rate |-> 0,
     pre_heap |-> <<>>, pre_state |-> NoState, pc |-> "idle", output |-> NoArg,
     internal |-> NoArg, loss |-> 0, delta |-> NoArg, log |-> <<>>,
     ret |-> NoArg]

\* Where a Tensor comes from.  Every train_const / from call allocates one Rc,
\* so the call is named by the heap index of the Rc it allocated.  `any` holds
\* the constructor calls the Tensor descends from through squared and either
\* operand of add / sub; `own` is the one it descends from through squared and
\* the left operand only.
Descent(any, own) == [any |-> any, own |-> own]
Born(held, t, descent) ==
    [u \in BagToSet(held) \cup {t} |-> IF u = t THEN descent ELSE ancestry[u]]
Surviving(held) == [u \in BagToSet(held) |-> ancestry[u]]
Call(name, arg, a, b, ret) ==
    [call |-> name, arg |-> arg, a |-> a, b |-> b, pre |-> heap, ret |-> ret]

Init ==
    /\ heap = <<>>
    /\ tensors = EmptyBag
    /\ panicked = FALSE
    /\ last = [call |-> "none", arg |-> NoArg, a |-> NoTensor, b |-> NoTensor,
               pre |-> <<>>, ret |-> NoTensor]
    /\ ancestry = Surviving(EmptyBag)
    /\ receiver = Graph_new
    /\ state = NoState
    /\ step = NoStep
    /\ glast = [call |-> "none", pre |-> Graph_new, other |-> Graph_new,
                op |-> NoArg, input |-> NoArg, node |-> 0, ret |-> NoArg]

\* Tensor::train_const: a fresh Rc holding the single TrainConst operation.
train_const(shape, value) ==
    /\ ~panicked
    /\ Len(heap) < MaxGraphs
    /\ BagCardinality(tensors) < MaxTensors
    /\ LET graph == Graph(Append(Graph_new.ops, TrainConst(shape, value)))
           t == Tensor(Len(heap) + 1, InputInternal(Internal(0, 0)))
       IN  /\ heap' = Append(heap, graph)
           /\ tensors' = tensors (+) One(t)
           /\ last' = Call("train_const", [shape |-> shape, value |-> value],
                        NoTensor, NoTensor, t)
           /\ ancestry' = Born(tensors, t,
                               Descent({Len(heap) + 1}, Len(heap) + 1))
    /\ UNCHANGED <<panicked, direct, training>>

\* From<&str> for Tensor: a fresh Rc holding the empty Graph, input Feed(s).
from(s) ==
    /\ ~panicked
    /\ Len(heap) < MaxGraphs
    /\ BagCardinality(tensors) < MaxTensors
    /\ LET t == Tensor(Len(heap) + 1, Feed(s))
       IN  /\ heap' = Append(heap, Graph_new)
           /\ tensors' = tensors (+) One(t)
           /\ last' = Call("from", [s |-> s], NoTensor, NoTensor, t)
           /\ ancestry' = Born(tensors, t,
                               Descent({Len(heap) + 1}, Len(heap) + 1))
    /\ UNCHANGED <<panicked, direct, training>>

\* Tensor::squared with Rc::new(RefCell::new(self.graph.borrow().clone())) in
\* place of self.graph.clone(): the result holds a private copy of the graph.
squared_copy(self) ==
    /\ ~panicked
    /\ self \in Live
    /\ BagCardinality(tensors) < MaxTensors
    /\ Len(heap) < MaxGraphs
    /\ Len(heap[self.graph].ops) < MaxLen
    /\ LET r == Graph_append(heap[self.graph], Square(self.input))
           t == Tensor(Len(heap) + 1, InputInternal(Internal(r.ret, 0)))
       IN  /\ heap' = Append(heap, r.self)
           /\ tensors' = tensors (+) One(t)
           /\ last' = Call("squared", NoArg, self, NoTensor, t)
           /\ ancestry' = Born(tensors, t, ancestry[self])
    /\ UNCHANGED <<panicked, direct, training>>

\* Tensor::squared(&self): clone the Rc, append Square(self.input) through it.
squared(self) ==
    /\ ~panicked
    /\ self \in Live
    /\ BagCardinality(tensors) < MaxTensors
    /\ LET graph == self.graph
       IN  /\ Len(heap[graph].ops) < MaxLen
           /\ CanBorrowMut(Unused, graph)
           /\ LET r == Graph_append(heap[graph], Square(self.input))
                  t == Tensor(graph, InputInternal(Internal(r.ret, 0)))
              IN  /\ heap' = [heap EXCEPT ![graph] = r.self]
                  /\ tensors' = tensors (+) One(t)
                  /\ last' = Call("squared", NoArg, self, NoTensor, t)
                  /\ ancestry' = Born(tensors, t, ancestry[self])
    /\ UNCHANGED <<panicked, direct, training>>

\* The make_op argument of merge2_1, Op::Add or Op::Sub, applied to two Inputs.
Make(make_op, a, b) ==
    CASE make_op = "Add" -> Add(a, b)
      [] make_op = "Sub" -> Sub(a, b)
CallName(make_op) == IF make_op = "Add" THEN "add" ELSE "sub"

\* merge2_1 moving the operations out of b's graph (mem::take on
\* b.graph.borrow_mut().ops) in place of merging b.graph.borrow().clone().
merge2_1_take(a, b, make_op) ==
    /\ ~panicked
    /\ a \in Live /\ b \in Live
    /\ (a = b) => (CopiesIn(a, tensors) >= 2)
    /\ UNCHANGED <<direct, training>>
    /\ LET a_graph == a.graph
           moved == (tensors (-) One(a)) (-) One(b)
       IN  IF ~CanBorrow(BorrowMut(Unused, a_graph), b.graph)
           THEN /\ panicked' = TRUE
                /\ tensors' = moved
                /\ last' = Call(CallName(make_op), NoArg, a, b, NoTensor)
                /\ heap' = Release(heap, moved)
                /\ ancestry' = Surviving(moved)
           ELSE /\ Len(heap[a_graph].ops) + Len(heap[b.graph].ops) + 1 <= MaxLen
                /\ LET m == Graph_merge_input(heap[a_graph], heap[b.graph], b.input)
                       r == Graph_append(m.self, Make(make_op, a.input, m.ret))
                       t == Tensor(a_graph, InputInternal(Internal(r.ret, 0)))
                   IN  /\ heap' = Release([heap EXCEPT ![a_graph] = r.self,
                                                        ![b.graph] = Graph_new],
                                           moved (+) One(t))
                       /\ tensors' = moved (+) One(t)
                       /\ last' = Call(CallName(make_op), NoArg, a, b, t)
                       /\ ancestry' = Born(moved, t,
                              Descent(ancestry[a].any \cup ancestry[b].any,
                                      ancestry[a].own))
                /\ UNCHANGED panicked

\* merge2_1(a, b, make_op): a and b are moved in.  The receiver
\* a_graph.borrow_mut() is evaluated before the argument b.graph.borrow(),
\* which panics when b.graph is the RefCell that is mutably borrowed.  b is
\* dropped when the function returns, a and b when it unwinds.
merge2_1(a, b, make_op) ==
    /\ ~panicked
    /\ a \in Live /\ b \in Live
    /\ (a = b) => (CopiesIn(a, tensors) >= 2)
    /\ UNCHANGED <<direct, training>>
    /\ LET a_graph == a.graph
           a_input == a.input
           moved == (tensors (-) One(a)) (-) One(b)
           flags == BorrowMut(Unused, a_graph)
       IN  IF ~CanBorrow(flags, b.graph)
           THEN /\ panicked' = TRUE
                /\ tensors' = moved
                /\ last' = Call(CallName(make_op), NoArg, a, b, NoTensor)
                /\ heap' = Release(heap, moved)
                /\ ancestry' = Surviving(moved)
           ELSE /\ Len(heap[a_graph].ops) + Len(heap[b.graph].ops) + 1 <= MaxLen
                /\ LET m == Graph_merge_input(heap[a_graph], heap[b.graph], b.input)
                       a_with_b_merged == m.ret
                       r == Graph_append(m.self,
                                         Make(make_op, a_input, a_with_b_merged))
                       t == Tensor(a_graph, InputInternal(Internal(r.ret, 0)))
                   IN  /\ heap' = Release([heap EXCEPT ![a_graph] = r.self],
                                           moved (+) One(t))
                       /\ tensors' = moved (+) One(t)
                       /\ last' = Call(CallName(make_op), NoArg, a, b, t)
                       /\ ancestry' = Born(moved, t,
                              Descent(ancestry[a].any \cup ancestry[b].any,
                                      ancestry[a].own))
                /\ UNCHANGED panicked

\* Add for Tensor / Sub for Tensor.
add(a, b) == merge2_1(a, b, "Add")
sub(a, b) == merge2_1(a, b, "Sub")

Next ==
    \/ \E shape \in Shapes, value \in Values : train_const(shape, value)
    \/ \E s \in Keys : from(s)
    \/ \E self \in Live : squared(self)
    \/ \E a \in Live, b \in Live : add(a, b)
    \/ \E a \in Live, b \in Live : sub(a, b)

Spec == Init /\ [][Next]_vars

(***************************************************************************)
(* lib.rs: Graph's public API called directly on a Graph value.            *)
(***************************************************************************)
GraphCall(name, other, op, input, node, ret) ==
    [call |-> name, pre |-> receiver, other |-> other, op |-> op,
     input |-> input, node |-> node, ret |-> ret]

\* receiver.append(op)
append(op) ==
    /\ Len(receiver.ops) < MaxOps
    /\ LET r == Graph_append(receiver, op)
       IN  /\ receiver' = r.self
           /\ glast' = GraphCall("append", Graph_new, op, NoArg, r.ret, NoArg)
    /\ UNCHANGED <<builder, training>>

\* receiver.merge(other)
merge(other) ==
    /\ Len(receiver.ops) + Len(other.ops) <= MaxOps
    /\ receiver' = Graph_merge(receiver, other)
    /\ glast' = GraphCall("merge", other, NoArg, NoArg, 0, NoArg)
    /\ UNCHANGED <<builder, training>>

\* receiver.merge_input(other, input)
merge_input(other, input) ==
    /\ Len(receiver.ops) + Len(other.ops) <= MaxOps
    /\ LET r == Graph_merge_input(receiver, other, input)
       IN  /\ receiver' = r.self
           /\ glast' = GraphCall("merge_input", other, NoArg, input, 0, r.ret)
    /\ UNCHANGED <<builder, training>>

NextGraph ==
    \/ \E op \in GraphOps : append(op)
    \/ \E other \in GraphsUpTo(MaxOps - Len(receiver.ops)) : merge(other)
    \/ \E other \in GraphsUpTo(MaxOps - Len(receiver.ops)), input \in GraphInputs :
            merge_input(other, input)

SpecGraph == Init /\ [][NextGraph]_vars

(***************************************************************************)
(* lib.rs: trait Backend.  The repository holds no implementation; the     *)
(* drivers of tensor.rs are generic over it.  The model lets every backend *)
(* call fail with any error, lets train leave any state behind, and takes  *)
(* the values of a successful call from a deterministic implementation:    *)
(* State is one trained parameter, Tensor one number, TensorDict a number  *)
(* per feed key, InternalStorage what forward was called with, Delta what  *)
(* backward was called with.                                               *)
(***************************************************************************)
States == {[param |-> n] : n \in 0..MaxState}
BackendTensor(value) == [value |-> value]
TensorDicts == [Keys -> {0, 1}]
Rates == {1}

RECURSIVE FeedSum(_, _)
FeedSum(inputs, keys) ==
    IF keys = {} THEN 0
    ELSE LET k == CHOOSE k \in keys : TRUE
         IN  inputs[k] + FeedSum(inputs, keys \ {k})

\* Backend::state(&self, graph, rng)
Backend_state(graph, rng) ==
    {Ok([param |-> rng % (MaxState + 1)])} \cup {Err(e) : e \in Errors}

\* Backend::forward(&self, graph, state, inputs, tensor)
Backend_forward(graph, st, inputs, tensor) ==
    LET output ==
            IF tensor.tag = "Feed" THEN BackendTensor(inputs[tensor.key])
            ELSE BackendTensor(st.param + FeedSum(inputs, Keys)
                                   + Len(graph.ops) + tensor.n.node)
        internal == [graph |-> graph, state |-> st, inputs |-> inputs,
                     tensor |-> tensor]
    IN  {Ok(<<output, internal>>)} \cup {Err(e) : e \in Errors}

\* The Tensor a forward call that succeeds returns.
ForwardOutput(graph, st, inputs, tensor) ==
    (CHOOSE r \in Backend_forward(graph, st, inputs, tensor) : r.tag = "Ok").value[1]

\* Backend::backward(&self, graph, state, internal, inputs, tensor, output_delta)
Backend_backward(graph, st, internal, inputs, tensor, output_delta) ==
    {Ok([internal |-> internal, output_delta |-> output_delta])}
        \cup {Err(e) : e \in Errors}

\* Backend::train(&self, state: &mut State, delta): the result and the State
\* left behind, which an implementation may have changed also when it fails.
Backend_train(st, delta) ==
    {[result |-> r, state |-> new] :
        r \in {Ok(NoArg)} \cup {Err(e) : e \in Errors}, new \in States}

\* One call of the backend as the driver made it.
BackendCall(fn, args, result) == [fn |-> fn, args |-> args, result |-> result]

(***************************************************************************)
(* tensor.rs: the drivers gen_state, eval and gradient_descent.            *)
(***************************************************************************)
\* The projections the caller hands to gradient_descent:
\* tensor_loss: fn(B::Tensor) -> f32 and delta_tensor: fn(f32) -> B::Tensor.
tensor_loss(output) == output.value + 1
delta_tensor(x) == BackendTensor(2 * x)

\* Tensor::gen_state(&self, backend, rng); the caller keeps the State of Ok.
gen_state(self, rng) ==
    /\ step.pc = "idle"
    /\ self \in Live
    /\ \E result \in Backend_state(heap[self.graph], rng) :
           /\ step' = [Enter("gen_state", self, NoArg, 0) EXCEPT
                           !.log = <<BackendCall("state",
                                        [graph |-> heap[self.graph], rng |-> rng],
                                        result)>>,
                           !.ret = result]
           /\ state' = IF result.tag = "Ok" THEN result.value ELSE state
    /\ UNCHANGED <<builder, direct>>

\* The arguments of a forward call.
ForwardArgs(graph, st, inputs, tensor) ==
    [graph |-> graph, state |-> st, inputs |-> inputs, tensor |-> tensor]

\* eval taking the State by &mut and letting the backend train on a zero
\* delta after the forward pass.
eval_training(self, inputs) ==
    /\ step.pc = "idle"
    /\ self \in Live
    /\ state # NoState
    /\ \E result \in Backend_forward(heap[self.graph], state, inputs, self.input),
          done \in Backend_train(state, NoArg) :
           /\ step' = [Enter("eval", self, inputs, 0) EXCEPT
                           !.log = <<BackendCall("forward",
                                        ForwardArgs(heap[self.graph], state,
                                                    inputs, self.input),
                                        result)>>,
                           !.ret = IF result.tag = "Ok" THEN Ok(result.value[1])
                                   ELSE result]
           /\ state' = done.state
    /\ UNCHANGED <<builder, direct>>

\* Tensor::eval(&self, backend, state, inputs)
eval(self, inputs) ==
    /\ step.pc = "idle"
    /\ self \in Live
    /\ state # NoState
    /\ \E result \in Backend_forward(heap[self.graph], state, inputs, self.input) :
           step' = [Enter("eval", self, inputs, 0) EXCEPT
                       !.log = <<BackendCall("forward",
                                    ForwardArgs(heap[self.graph], state, inputs,
                                                self.input),
                                    result)>>,
                       !.ret = IF result.tag = "Ok" THEN Ok(result.value[1])
                               ELSE result]
    /\ UNCHANGED <<builder, direct, state>>

\* Tensor::gradient_descent, entry and forward pass: `?` returns the error.
gradient_descent(self, inputs, learning_rate) ==
    /\ step.pc = "idle"
    /\ self \in Live
    /\ state # NoState
    /\ \E result \in Backend_forward(heap[self.graph], state, inputs, self.input) :
           LET entered == [Enter("gradient_descent", self, inputs, learning_rate)
                              EXCEPT !.log = <<BackendCall("forward",
                                                  ForwardArgs(heap[self.graph], state,
                                                              inputs, self.input),
                                                  result)>>]
           IN  step' = IF result.tag = "Ok"
                       THEN [entered EXCEPT !.pc = "forward",
                                            !.output = result.value[1],
                                            !.internal = result.value[2]]
                       ELSE [entered EXCEPT !.ret = result]
    /\ UNCHANGED <<builder, direct, state>>

\* gradient_descent running the forward pass a second time to get the
\* InternalStorage it hands to backward.
gradient_descent_backward_reforward ==
    /\ step.pc = "forward"
    /\ LET self == step.self
           loss == tensor_loss(step.output)
           again == ForwardArgs(heap[self.graph], state, step.inputs, self.input)
           args == [graph |-> heap[self.graph], state |-> state,
                    internal |-> again, inputs |-> step.inputs,
                    tensor |-> self.input,
                    output_delta |-> delta_tensor((-step.learning_rate) * loss)]
       IN  step' = [step EXCEPT
                       !.pc = "backward",
                       !.loss = loss,
                       !.delta = [internal |-> again,
                                  output_delta |-> args.output_delta],
                       !.log = @ \o <<BackendCall("forward", again,
                                                  Ok(<<step.output, again>>)),
                                      BackendCall("backward", args, Ok(step.delta))>>]
    /\ UNCHANGED <<builder, direct, state>>

\* gradient_descent without the `?` on backward: an error is dropped and the
\* step goes on to train.
gradient_descent_backward_unchecked ==
    /\ step.pc = "forward"
    /\ LET self == step.self
           loss == tensor_loss(step.output)
           output_delta == delta_tensor((-step.learning_rate) * loss)
           args == [graph |-> heap[self.graph], state |-> state,
                    internal |-> step.internal, inputs |-> step.inputs,
                    tensor |-> self.input, output_delta |-> output_delta]
       IN  \E result \in Backend_backward(args.graph, args.state, args.internal,
                                           args.inputs, args.tensor,
                                           args.output_delta) :
               step' = [step EXCEPT
                           !.pc = "backward",
                           !.loss = loss,
                           !.delta = IF result.tag = "Ok" THEN result.value
                                     ELSE NoArg,
                           !.log = Append(@, BackendCall("backward", args, result))]
    /\ UNCHANGED <<builder, direct, state>>

\* Tensor::gradient_descent, loss, output delta and backward pass.
gradient_descent_backward ==
    /\ step.pc = "forward"
    /\ LET self == step.self
           loss == tensor_loss(step.output)
           output_delta == delta_tensor((-step.learning_rate) * loss)
           args == [graph |-> heap[self.graph], state |-> state,
                    internal |-> step.internal, inputs |-> step.inputs,
                    tensor |-> self.input, output_delta |-> output_delta]
       IN  \E result \in Backend_backward(args.graph, args.state, args.internal,
                                           args.inputs, args.tensor,
                                           args.output_delta) :
               LET called == [step EXCEPT
                                 !.loss = loss,
                                 !.log = Append(@, BackendCall("backward", args,
                                                               result))]
               IN  step' = IF result.tag = "Ok"
                           THEN [called EXCEPT !.pc = "backward",
                                               !.delta = result.value]
                           ELSE [called EXCEPT !.pc = "idle", !.ret = result]
    /\ UNCHANGED <<builder, direct, state>>

\* gradient_descent computing the loss it returns after train, from a forward
\* pass at the updated state.
gradient_descent_train_reloss ==
    /\ step.pc = "backward"
    /\ \E done \in Backend_train(state, step.delta) :
           /\ state' = done.state
           /\ step' = [step EXCEPT
                           !.pc = "idle",
                           !.log = Append(@, BackendCall("train",
                                        [state |-> state, delta |-> step.delta],
                                        done.result)),
                           !.ret = IF done.result.tag = "Ok"
                                   THEN Ok(tensor_loss(ForwardOutput(
                                            heap[step.self.graph], done.state,
                                            step.inputs, step.self.input)))
                                   ELSE done.result]
    /\ UNCHANGED <<builder, direct>>

\* Tensor::gradient_descent, train and return.
gradient_descent_train ==
    /\ step.pc = "backward"
    /\ \E done \in Backend_train(state, step.delta) :
           /\ state' = done.state
           /\ step' = [step EXCEPT
                           !.pc = "idle",
                           !.log = Append(@, BackendCall("train",
                                        [state |-> state, delta |-> step.delta],
                                        done.result)),
                           !.ret = IF done.result.tag = "Ok" THEN Ok(step.loss)
                                   ELSE done.result]
    /\ UNCHANGED <<builder, direct>>

\* The Tensors the drivers are called on:
\*   x = train_const([1], 2); y = x.squared(); f = from("x")   or
\*   l = train_const([1], 2) - from("x")
Trained ==
    LET x == Graph_append(Graph_new, TrainConst(<<1>>, 2))
        y == Graph_append(x.self, Square(InputInternal(Internal(x.ret, 0))))
        m == Graph_merge_input(x.self, Graph_new, Feed("x"))
        l == Graph_append(m.self, Sub(InputInternal(Internal(x.ret, 0)), m.ret))
        tx == Tensor(1, InputInternal(Internal(x.ret, 0)))
        ty == Tensor(1, InputInternal(Internal(y.ret, 0)))
        tf == Tensor(2, Feed("x"))
        tl == Tensor(1, InputInternal(Internal(l.ret, 0)))
    IN  {[heap |-> <<y.self, Graph_new>>,
          tensors |-> One(tx) (+) One(ty) (+) One(tf),
          ancestry |-> (tx :> Descent({1}, 1)) @@ (ty :> Descent({1}, 1))
                           @@ (tf :> Descent({2}, 2))],
         [heap |-> <<l.self, Dropped>>,
          tensors |-> One(tl),
          ancestry |-> (tl :> Descent({1, 2}, 1))]}

InitTrain ==
    /\ \E built \in Trained :
           /\ heap = built.heap
           /\ tensors = built.tensors
           /\ ancestry = built.ancestry
    /\ panicked = FALSE
    /\ last = [call |-> "none", arg |-> NoArg, a |-> NoTensor, b |-> NoTensor,
               pre |-> <<>>, ret |-> NoTensor]
    /\ receiver = Graph_new
    /\ glast = [call |-> "none", pre |-> Graph_new, other |-> Graph_new,
                op |-> NoArg, input |-> NoArg, node |-> 0, ret |-> NoArg]
    /\ state = NoState
    /\ step = NoStep

NextTrain ==
    \/ \E self \in Live, rng \in 0..MaxState : gen_state(self, rng)
    \/ \E self \in Live, inputs \in TensorDicts : eval(self, inputs)
    \/ \E self \in Live, inputs \in TensorDicts, learning_rate \in Rates :
            gradient_descent(self, inputs, learning_rate)
    \/ gradient_descent_backward
    \/ gradient_descent_train

SpecTrain == InitTrain /\ [][NextTrain]_vars

\* Both APIs.  Tensor's graph field is private and no Tensor is made from a
\* caller's Graph, so the builder and a caller's Graph value share no state: a
\* run drives the one or the other.
NextEither ==
    \/ glast.call = "none" /\ Next
    \/ last.call = "none" /\ NextGraph

SpecEither == Init /\ [][NextEither]_vars

(***************************************************************************)
(* Vocabulary of the properties.                                           *)
(***************************************************************************)
\* The Inputs an operation holds, in operand order.
Operands(op) ==
    CASE op.ty \in {"Add", "Sub"} -> <<op.a, op.b>>
      [] op.ty = "Square" -> <<op.a>>
      [] op.ty = "TrainConst" -> <<>>

\* Every Internal reference of the operation at (0-based) index i points to
\* an index below i, output slot 0.
BackwardAt(ops, i) ==
    \A k \in 1..Len(Operands(ops[i + 1])) :
        LET input == Operands(ops[i + 1])[k]
        IN  input.tag = "Internal" =>
                /\ input.n.node < i
                /\ input.n.output = 0

Backward(ops) == \A i \in 0..(Len(ops) - 1) : BackwardAt(ops, i)

\* `to` is the Input `from_` with an Internal node index increased by n and
\* everything else (variant, Feed key, output slot) the same.
InputMoved(from_, to, n) ==
    /\ to.tag = from_.tag
    /\ from_.tag = "Feed" => to.key = from_.key
    /\ from_.tag = "Internal" =>
            /\ to.n.node = from_.n.node + n
            /\ to.n.output = from_.n.output

\* `to` is the operation `from_` with every Internal node index increased by
\* n: same kind, same operand order, same TrainConst shape and value.
OpMoved(from_, to, n) ==
    /\ to.ty = from_.ty
    /\ from_.ty \in {"Add", "Sub"} =>
            InputMoved(from_.a, to.a, n) /\ InputMoved(from_.b, to.b, n)
    /\ from_.ty = "Square" => InputMoved(from_.a, to.a, n)
    /\ from_.ty = "TrainConst" =>
            to.shape = from_.shape /\ to.value = from_.value

\* The last call was add or sub, with the operands it was given.
Combined == last.call \in {"add", "sub"}
MadeOp == IF last.call = "add" THEN "Add" ELSE "Sub"
Returned == last.ret # NoTensor
GraphBefore(t) == last.pre[t.graph].ops
GraphNow(t) == heap[t.graph].ops

(***************************************************************************)
(* C1: in every reachable state, every graph held by a live builder has    *)
(* only backward references: each Internal reference of the operation at   *)
(* index i has a node index strictly less than i, and output slot 0.       *)
(***************************************************************************)
C1_BackwardReferences == \A t \in Live : Backward(GraphNow(t))

\* A combination has merged a graph holding an Internal reference into a
\* non-empty receiver, and the result is held by a live builder.
C1_Witness ==
    /\ Combined /\ Returned /\ last.ret \in Live
    /\ Len(GraphBefore(last.a)) >= 1
    /\ \E i \in 1..Len(GraphBefore(last.b)) :
           \E k \in 1..Len(Operands(GraphBefore(last.b)[i])) :
               Operands(GraphBefore(last.b)[i])[k].tag = "Internal"

(***************************************************************************)
(* C7: every live builder whose reference is Internal{n, o} has n strictly *)
(* below the current length of the graph it holds, also when the graph has *)
(* been extended through another builder since it was created.             *)
(***************************************************************************)
C7_ReferenceInRange ==
    \A t \in Live :
        t.input.tag = "Internal" => t.input.n.node < Len(GraphNow(t))

\* The last call extended a graph that another, older live builder holds.
C7_Witness ==
    /\ last.call \in {"squared", "add", "sub"} /\ Returned
    /\ \E t \in Live :
           /\ t # last.ret
           /\ t.graph = last.ret.graph
           /\ t.input.tag = "Internal"
           /\ Len(GraphNow(t)) > Len(GraphBefore(t))

(***************************************************************************)
(* C9: squared on a builder with reference r over a graph of length n      *)
(* appends exactly one operation Square(r) at index n to that same graph   *)
(* instance and returns a builder on that instance referencing             *)
(* Internal{n, 0}; the original builder stays live with its reference      *)
(* unchanged and no other graph instance changes.  In particular           *)
(* train_const([1], 2).squared() gives [TrainConst([1], 2),                *)
(* Square(Internal{0, 0})].                                                *)
(***************************************************************************)
C9_Squared ==
    last.call = "squared" =>
        LET self == last.a
            n == Len(GraphBefore(self))
        IN  /\ ~panicked
            /\ GraphNow(self) = Append(GraphBefore(self), Square(self.input))
            /\ last.ret = Tensor(self.graph, InputInternal(Internal(n, 0)))
            /\ last.ret \in Live
            /\ self \in Live
            /\ Len(heap) = Len(last.pre)
            /\ \A g \in 1..Len(heap) : g # self.graph => heap[g] = last.pre[g]
            /\ (GraphBefore(self) = <<TrainConst(<<1>>, 2)>>
                    /\ self.input = InputInternal(Internal(0, 0)))
                => GraphNow(self) = <<TrainConst(<<1>>, 2),
                                      Square(InputInternal(Internal(0, 0)))>>

\* train_const([1], 2).squared() has just returned.
C9_Witness ==
    /\ last.call = "squared"
    /\ GraphBefore(last.a) = <<TrainConst(<<1>>, 2)>>
    /\ GraphNow(last.ret) = <<TrainConst(<<1>>, 2),
                              Square(InputInternal(Internal(0, 0)))>>
    /\ last.ret.input = InputInternal(Internal(1, 0))

\* What a combination leaves behind: the receiver's graph, the operand's
\* graph shifted, the new operation, and the returned builder.
CombinationLaw ==
    LET A == GraphBefore(last.a)
        B == GraphBefore(last.b)
        now == GraphNow(last.a)
    IN  /\ Len(now) = Len(A) + Len(B) + 1
        /\ \A i \in 1..Len(A) : now[i] = A[i]
        /\ \A j \in 1..Len(B) : OpMoved(B[j], now[Len(A) + j], Len(A))
        /\ now[Len(now)].ty = MadeOp
        /\ now[Len(now)].a = last.a.input
        /\ InputMoved(last.b.input, now[Len(now)].b, Len(A))
        /\ last.ret = Tensor(last.a.graph,
                             InputInternal(Internal(Len(A) + Len(B), 0)))

(***************************************************************************)
(* C3: add(a, b) / sub(a, b) leaves a's graph equal to A, followed by B    *)
(* with every Internal node index increased by len(A), followed by one new *)
(* operation Add/Sub(ra, rb') with ra unshifted and rb' = rb shifted by    *)
(* len(A); the returned builder holds a's graph handle and references      *)
(* Internal{len(A) + len(B), 0}.                                           *)
(***************************************************************************)
C3_Combination == Combined => CombinationLaw

\* The same law for the combinations that return (operands on different
\* graph instances); this one holds.
CombinationLawWhenReturned == (Combined /\ Returned) => CombinationLaw

(***************************************************************************)
(* C2: add / sub of two builders that share one graph instance completes   *)
(* normally and merges a copy of the shared graph's snapshot: every node   *)
(* of the snapshot of length n is duplicated, and the combined graph ends  *)
(* with length 2n + 1.                                                     *)
(***************************************************************************)
C2_SharedGraphCombination ==
    (Combined /\ last.a.graph = last.b.graph) =>
        LET snapshot == GraphBefore(last.a)
            n == Len(snapshot)
            now == GraphNow(last.a)
        IN  /\ ~panicked
            /\ Returned
            /\ Len(now) = 2 * n + 1
            /\ \A j \in 1..n :
                   now[j] = snapshot[j] /\ OpMoved(snapshot[j], now[n + j], n)

(***************************************************************************)
(* C4: the graph of add(a, b) / sub(a, b) has size(a) + size(b) + 1        *)
(* operations, the sizes being the lengths of the operands' graphs         *)
(* immediately before the combination.                                     *)
(***************************************************************************)
C4_CombinedSize ==
    Combined =>
        Len(GraphNow(last.a))
            = Len(GraphBefore(last.a)) + Len(GraphBefore(last.b)) + 1

\* The operands of the last combination are two squared() of one builder.
TwoSquaresOfOne ==
    /\ Combined
    /\ last.a.graph = last.b.graph
    /\ last.a.input.tag = "Internal" /\ last.b.input.tag = "Internal"
    /\ last.a.input.n.node # last.b.input.n.node
    /\ LET sa == GraphBefore(last.a)[last.a.input.n.node + 1]
           sb == GraphBefore(last.b)[last.b.input.n.node + 1]
       IN  sa.ty = "Square" /\ sb.ty = "Square" /\ sa.a = sb.a

(***************************************************************************)
(* C8: x.squared() + x.squared() produces a graph in which the two squared *)
(* computations are not deduplicated: the resulting graph holds two        *)
(* distinct Square nodes that reference the same upstream node.            *)
(***************************************************************************)
C8_NoDeduplication ==
    TwoSquaresOfOne =>
        /\ Returned
        /\ LET now == GraphNow(last.a)
           IN  /\ now[Len(now)].ty = MadeOp
               /\ \E i \in 1..Len(now), j \in 1..Len(now) :
                      /\ i # j
                      /\ now[i].ty = "Square" /\ now[j].ty = "Square"
                      /\ now[i].a = now[j].a

(***************************************************************************)
(* C10 (as stated): a builder b created by from(name) contributes no graph *)
(* nodes when combined: add(a, b) / sub(a, b) grows a's graph by exactly   *)
(* the one new operation, whose second operand is Feed(name).              *)
(***************************************************************************)
C10_FromContributesNothing ==
    (Combined /\ Returned /\ last.b.input.tag = "Feed") =>
        LET now == GraphNow(last.a)
        IN  /\ Len(now) = Len(GraphBefore(last.a)) + 1
            /\ now[Len(now)].b = last.b.input

(***************************************************************************)
(* C10 (amended): from(name) returns a builder with an empty graph and     *)
(* reference Feed(name); when such a builder is combined while its graph   *)
(* is still empty, add(a, b) / sub(a, b) returns and grows a's graph by    *)
(* exactly the one new operation Add/Sub(ra, Feed(name)), the key          *)
(* unchanged, and the result references that operation.                    *)
(***************************************************************************)
C10_EmptyFromContributesNothing ==
    /\ last.call = "from" =>
            /\ GraphNow(last.ret) = <<>>
            /\ last.ret.input.tag = "Feed"
            /\ last.ret.input.key = last.arg.s
            /\ last.ret \in Live
    /\ (Combined /\ last.b.input.tag = "Feed" /\ GraphBefore(last.b) = <<>>) =>
            LET A == GraphBefore(last.a)
                now == GraphNow(last.a)
            IN  /\ Returned
                /\ Len(now) = Len(A) + 1
                /\ \A i \in 1..Len(A) : now[i] = A[i]
                /\ now[Len(now)].ty = MadeOp
                /\ now[Len(now)].a = last.a.input
                /\ now[Len(now)].b.tag = "Feed"
                /\ now[Len(now)].b.key = last.b.input.key
                /\ last.ret = Tensor(last.a.graph,
                                     InputInternal(Internal(Len(A), 0)))

\* train_const([1], 2) + from("x") has just returned.
C10_Witness ==
    /\ last.call = "add"
    /\ last.b = Tensor(last.b.graph, Feed("x"))
    /\ GraphBefore(last.b) = <<>>
    /\ GraphBefore(last.a) = <<TrainConst(<<1>>, 2)>>
    /\ Len(GraphNow(last.ret)) = 2
    /\ GraphNow(last.ret)[2].ty = "Add"
    /\ GraphNow(last.ret)[2].a = InputInternal(Internal(0, 0))
    /\ GraphNow(last.ret)[2].b = Feed("x")

(***************************************************************************)
(* C5: Graph::merge(other) on a receiver of length n results in a graph of *)
(* length n + len(other) whose position n + j holds other.ops[j] with      *)
(* every Internal node index increased by exactly n, and with Feed keys,   *)
(* output slots, operation kind, operand order and TrainConst shape and    *)
(* value unchanged.                                                        *)
(***************************************************************************)
C5_Merge ==
    glast.call = "merge" =>
        LET n == Len(glast.pre.ops)
            other == glast.other.ops
        IN  /\ Len(receiver.ops) = n + Len(other)
            /\ \A j \in 1..Len(other) : OpMoved(other[j], receiver.ops[n + j], n)

\* A merge into a non-empty receiver of a graph that holds a TrainConst, an
\* operation with a Feed operand and a reference to output slot 1 of node 1.
C5_Witness ==
    /\ glast.call = "merge"
    /\ Len(glast.pre.ops) >= 1
    /\ \E i \in 1..Len(glast.other.ops), j \in 1..Len(glast.other.ops) :
           /\ glast.other.ops[i].ty = "TrainConst"
           /\ glast.other.ops[j].ty = "Add"
           /\ glast.other.ops[j].a = InputInternal(Internal(1, 1))
           /\ glast.other.ops[j].b.tag = "Feed"

\* Every Internal reference of ops points to an earlier index of ops.
Resolvable(ops) ==
    \A i \in 1..Len(ops) :
        \A k \in 1..Len(Operands(ops[i])) :
            Operands(ops[i])[k].tag = "Internal" =>
                Operands(ops[i])[k].n.node < i - 1

(***************************************************************************)
(* C6: merging preserves resolvability.  If every Internal reference of a  *)
(* fragment F points to an earlier index of F, then after merging F into   *)
(* any receiver every Internal reference in the merged region points to an *)
(* index below the merged graph's length and below its own position, and   *)
(* the operation it points to is the shifted copy of the operation it      *)
(* pointed to in F.                                                        *)
(***************************************************************************)
C6_MergeKeepsResolvable ==
    (glast.call = "merge" /\ Resolvable(glast.other.ops)) =>
        LET n == Len(glast.pre.ops)
            F == glast.other.ops
            now == receiver.ops
        IN  \A j \in 1..Len(F) :
                /\ n + j <= Len(now)
                /\ Len(Operands(now[n + j])) = Len(Operands(F[j]))
                /\ \A k \in 1..Len(Operands(F[j])) :
                       LET was == Operands(F[j])[k]
                           is == Operands(now[n + j])[k]
                       IN  was.tag = "Internal" =>
                               /\ is.tag = "Internal"
                               /\ is.n.node < Len(now)
                               /\ is.n.node < n + j - 1
                               /\ OpMoved(F[was.n.node + 1], now[is.n.node + 1], n)

\* A fragment whose second operation refers to its first has been merged into
\* a non-empty receiver.
C6_Witness ==
    /\ glast.call = "merge"
    /\ Len(glast.pre.ops) >= 1
    /\ Len(glast.other.ops) >= 2
    /\ Resolvable(glast.other.ops)
    /\ \E k \in 1..Len(Operands(glast.other.ops[2])) :
           Operands(glast.other.ops[2])[k].tag = "Internal"

\* What merge(other) leaves in a receiver that held `before`.
MergedInto(before, other, now) ==
    LET n == Len(before)
    IN  /\ Len(now) = n + Len(other)
        /\ \A i \in 1..n : now[i] = before[i]
        /\ \A j \in 1..Len(other) : OpMoved(other[j], now[n + j], n)

(***************************************************************************)
(* C11: Graph::merge_input(other, input) has the same effect on the        *)
(* receiver as merge(other) and returns input shifted by the receiver's    *)
(* length before the merge: Internal{n, o} comes back as                   *)
(* Internal{n + len_before, o}, a Feed input comes back unchanged.         *)
(***************************************************************************)
C11_MergeInput ==
    glast.call = "merge_input" =>
        LET len_before == Len(glast.pre.ops)
        IN  /\ MergedInto(glast.pre.ops, glast.other.ops, receiver.ops)
            /\ receiver = Graph_merge(glast.pre, glast.other)
            /\ glast.input.tag = "Internal" =>
                   glast.ret = InputInternal(Internal(
                       glast.input.n.node + len_before, glast.input.n.output))
            /\ glast.input.tag = "Feed" => glast.ret = glast.input

\* merge_input of a non-empty graph into a non-empty receiver has returned an
\* Internal input.
C11_Witness ==
    /\ glast.call = "merge_input"
    /\ Len(glast.pre.ops) >= 1
    /\ Len(glast.other.ops) >= 1
    /\ glast.input = InputInternal(Internal(1, 1))
    /\ glast.ret = InputInternal(Internal(1 + Len(glast.pre.ops), 1))

(***************************************************************************)
(* C17: Graph::append(op) returns the index of the appended operation,     *)
(* which is the graph's length before the call and its length minus one    *)
(* after it; the graph grows by exactly one operation, the operations it   *)
(* held stay in place, and ops[returned index] is op.                      *)
(***************************************************************************)
C17_Append ==
    glast.call = "append" =>
        LET before == glast.pre.ops
            now == receiver.ops
        IN  /\ glast.node = Len(before)
            /\ glast.node = Len(now) - 1
            /\ Len(now) = Len(before) + 1
            /\ now[glast.node + 1] = glast.op
            /\ \A i \in 1..Len(before) : now[i] = before[i]

\* An append to a graph that already held two operations has returned 2.
C17_Witness ==
    /\ glast.call = "append"
    /\ Len(glast.pre.ops) = 2
    /\ glast.node = 2
    /\ glast.op \notin {glast.pre.ops[1], glast.pre.ops[2]}

\* The last call appended a node through the builder it returned; u sees it.
SeesAppended(u) ==
    LET n == last.ret.input.n.node
    IN  /\ Len(GraphNow(u)) > n
        /\ Len(GraphNow(u)) > Len(GraphBefore(u))
        /\ GraphNow(u)[n + 1] = GraphNow(last.ret)[n + 1]
Appended == last.call \in {"squared", "add", "sub"} /\ Returned

C19_OperandGraphCopied ==
    /\ (Combined /\ last.a.graph # last.b.graph) =>
            /\ Returned
            /\ \A u \in Live :
                   u.graph = last.b.graph => GraphNow(u) = GraphBefore(last.b)
    /\ Appended =>
            \A u \in Live :
                (u.graph # last.ret.graph /\ u # last.ret) =>
                    GraphNow(u) = GraphBefore(u)

\* A combination has merged the non-empty graph of b into the graph of a
\* while another live builder still holds b's graph instance.
C19_Witness ==
    /\ Combined /\ Returned
    /\ last.a.graph # last.b.graph
    /\ Len(GraphBefore(last.b)) >= 1
    /\ Len(GraphNow(last.ret)) > Len(GraphBefore(last.b))
    /\ \E u \in Live : u.graph = last.b.graph /\ Len(GraphNow(u)) >= 1

\* After such a combination a node has been appended to b's original graph
\* while the combined builder is live: the combined graph did not change.
C19_LaterAppend ==
    /\ last.call = "squared"
    /\ \E r \in Live :
           /\ r.graph # last.a.graph
           /\ ancestry[last.a].own \in ancestry[r].any
           /\ heap[r.graph] = last.pre[r.graph]

\* before is an exact prefix of now.
IsPrefix(before, now) ==
    /\ Len(before) <= Len(now)
    /\ \A i \in 1..Len(before) : now[i] = before[i]

(***************************************************************************)
(* C18: a graph only grows and its existing entries never change: across   *)
(* append, merge, merge_input, squared, add and sub the content of a graph *)
(* instance before the operation is an exact prefix of its content after   *)
(* it (no deletion, no reordering, and the index shift of a merge touches  *)
(* only the appended region, never the receiver's existing nodes).         *)
(***************************************************************************)
C18_OnlyGrows ==
    /\ IsPrefix(glast.pre.ops, receiver.ops)
    /\ \A u \in Live :
           u.graph <= Len(last.pre) => IsPrefix(GraphBefore(u), GraphNow(u))

\* A combination has merged a non-empty graph into a receiver whose existing
\* nodes hold an Internal reference.
C18_Witness ==
    /\ Combined /\ Returned /\ last.ret \in Live
    /\ Len(GraphBefore(last.b)) >= 1
    /\ Len(GraphNow(last.ret)) > Len(GraphBefore(last.a))
    /\ \E i \in 1..Len(GraphBefore(last.a)) :
           \E k \in 1..Len(Operands(GraphBefore(last.a)[i])) :
               Operands(GraphBefore(last.a)[i])[k].tag = "Internal"

\* The driver call on record is gradient_descent; it has returned Ok.
Stepping == step.call = "gradient_descent"
Succeeded == Stepping /\ step.ret.tag = "Ok"
StepOrder == <<"forward", "backward", "train">>

(***************************************************************************)
(* C12: in every successful gradient_descent step the backend is called    *)
(* exactly once each in the order forward, backward, train; backward       *)
(* receives the InternalStorage that step's forward returned, with the     *)
(* same graph, state, inputs and root reference, and train receives the    *)
(* Delta that step's backward returned.  (While a step runs, and when it   *)
(* fails, the calls made so far are a prefix of that order.)               *)
(***************************************************************************)
C12_BackendCallOrder ==
    Stepping =>
        LET log == step.log
        IN  /\ Len(log) <= 3
            /\ \A i \in 1..Len(log) : log[i].fn = StepOrder[i]
            /\ Succeeded => Len(log) = 3
            /\ Len(log) >= 1 =>
                   log[1].args = ForwardArgs(heap[step.self.graph], step.pre_state,
                                             step.inputs, step.self.input)
            /\ Len(log) >= 2 =>
                   /\ log[1].result.tag = "Ok"
                   /\ log[2].args.internal = log[1].result.value[2]
                   /\ log[2].args.graph = log[1].args.graph
                   /\ log[2].args.state = log[1].args.state
                   /\ log[2].args.inputs = log[1].args.inputs
                   /\ log[2].args.tensor = log[1].args.tensor
            /\ Len(log) = 3 =>
                   /\ log[2].result.tag = "Ok"
                   /\ log[3].args.delta = log[2].result.value

\* A gradient_descent step has returned Ok and left another state behind.
C12_Witness ==
    /\ Succeeded
    /\ Len(step.log) = 3
    /\ step.log[3].result.tag = "Ok"
    /\ state # step.pre_state

(***************************************************************************)
(* C13: the loss a successful gradient_descent returns is tensor_loss of   *)
(* the forward output computed at the state before the update, which is    *)
(* what eval followed by the projection gives at that state, not at the    *)
(* state train left behind.                                                *)
(***************************************************************************)
C13_LossBeforeUpdate ==
    /\ Succeeded =>
            /\ step.log[1].args.state = step.pre_state
            /\ step.ret.value = tensor_loss(step.log[1].result.value[1])
            /\ step.ret.value = tensor_loss(ForwardOutput(
                   heap[step.self.graph], step.pre_state, step.inputs,
                   step.self.input))
    /\ (step.call = "eval" /\ step.ret.tag = "Ok") =>
            step.ret.value = ForwardOutput(
                heap[step.self.graph], step.pre_state, step.inputs,
                step.self.input)

\* A step has returned a loss that differs from the loss at the state train
\* left behind.
C13_Witness ==
    /\ Succeeded
    /\ state # step.pre_state
    /\ step.ret.value # tensor_loss(ForwardOutput(
            heap[step.self.graph], state, step.inputs, step.self.input))

(***************************************************************************)
(* C14: when forward, backward or train returns an error during            *)
(* gradient_descent, the step ends there and returns that same error and   *)
(* no loss; when forward fails neither backward nor train is called, when  *)
(* backward fails train is not called, and in both cases the state is what *)
(* it was when the step was entered.                                       *)
(***************************************************************************)
C14_ErrorAborts ==
    Stepping =>
        \A i \in 1..Len(step.log) :
            step.log[i].result.tag = "Err" =>
                /\ i = Len(step.log)
                /\ step.pc = "idle"
                /\ step.ret = step.log[i].result
                /\ step.log[i].fn = "forward" => Len(step.log) = 1
                /\ step.log[i].fn \in {"forward", "backward"} =>
                       /\ state = step.pre_state
                       /\ \A j \in 1..Len(step.log) : step.log[j].fn # "train"

\* A step has returned the error E2 of its backward call.
C14_Witness ==
    /\ Stepping
    /\ Len(step.log) = 2
    /\ step.log[2].fn = "backward"
    /\ step.log[2].result = Err("E2")
    /\ step.ret = Err("E2")

(***************************************************************************)
(* C15: gen_state, eval and gradient_descent never modify the graph (same  *)
(* length and same operations before and after each call, whether it       *)
(* succeeds or fails), and eval never modifies the state.                  *)
(***************************************************************************)
C15_DriversKeepGraph ==
    step.call \in {"gen_state", "eval", "gradient_descent"} =>
        /\ heap = step.pre_heap
        /\ \A u \in Live :
               /\ Len(heap[u.graph].ops) = Len(step.pre_heap[u.graph].ops)
               /\ heap[u.graph].ops = step.pre_heap[u.graph].ops
        /\ step.call = "eval" => state = step.pre_state

\* An eval on a graph of two operations has returned the output for x = 1.
C15_Witness ==
    /\ step.call = "eval"
    /\ step.ret.tag = "Ok"
    /\ Len(heap[step.self.graph].ops) = 2
    /\ step.inputs["x"] = 1
    /\ state # NoState

====
